---- MODULE Spec2Model ----
(***************************************************************************)
(* The uptime checker of the health dashboard: the Checker supervisor      *)
(* (internal/monitor checker), its per-monitor polling loops, the state    *)
(* update of a probe tick and the monitor rows of the Store.               *)
(*                                                                         *)
(* Time is abstracted: a timer that the code waits on may fire at any      *)
(* moment, and a Go select with several ready cases picks any of them.    *)
(***************************************************************************)
EXTENDS Integers, Sequences, FiniteSets, TLC

\* ---------------------------------------------------------------- bounds
MaxMonitors == 1    \* monitor rows in the database
MaxLoops == 1       \* polling loops that Add and Restart may create, one caller
MaxRestarts == 2    \* polling loops that Restart may create, concurrent callers
MaxCalls == 2       \* supervisor calls that may be in progress at once
MaxFailures == 4    \* consecutive failures a row is taken to (see ProbeStart, GetRow)
MaxNotifies == 3    \* calls of Alerter.Notify
MaxProbed == 2      \* monitor rows in the database, loops left to themselves
MaxTicks == 6       \* probe ticks of a monitor whose verdicts are kept
MaxCreated == 1     \* monitors that POST /api/monitors creates
MaxFew == 1         \* consecutive failures a row is taken to while loops are cancelled

\* ------------------------------------------------------------- constants
\* const failureThreshold = 3
failureThreshold == 3

\* The answers a probe's HTTP request can get: a response with a status
\* code, or a transport error (err), for which the code is not set (0 = nil).
Responses ==
    { [err |-> FALSE, code |-> 200],
      [err |-> FALSE, code |-> 399],
      [err |-> FALSE, code |-> 400],
      [err |-> FALSE, code |-> 500],
      [err |-> TRUE,  code |-> 0] }

\* What a call of Alerter.post can get from the webhook endpoint: a
\* response with a status code, or a transport error or timeout (err).
WebhookAnswers ==
    { [err |-> TRUE,  code |-> 0] } \cup
    { [err |-> FALSE, code |-> c] : c \in {200, 204, 400, 404, 500, 503} }

\* No call of post has been made.
NoAnswer == [err |-> FALSE, code |-> 0]

\* ------------------------------------------------------- 64-bit integers
\* Go's int (on the 64-bit platforms the image is built for) and
\* time.Duration are 64 bits wide and wrap on overflow.  A value is kept as
\* its 8 bytes in two's complement, the low byte first.

\* The low k bytes of the integer n.
RECURSIVE Int64Bytes(_, _)
Int64Bytes(n, k) ==
    IF k = 0 THEN <<>> ELSE <<n % 256>> \o Int64Bytes(n \div 256, k - 1)

I64(n) == Int64Bytes(n, 8)

Zero64 == I64(0)

\* x > 0
Positive64(x) == x[8] < 128 /\ x # Zero64

\* Column k of the long multiplication of x by y: the sum of x[i] * y[j]
\* over i + j = k + 1, taken up to i.
RECURSIVE ColSum(_, _, _, _)
ColSum(x, y, k, i) ==
    IF i = 0 THEN 0 ELSE x[i] * y[k + 1 - i] + ColSum(x, y, k, i - 1)

\* The bytes of x * y from byte k on, c being carried into byte k; what is
\* carried out of byte 8 is lost.
RECURSIVE MulFrom(_, _, _, _)
MulFrom(x, y, k, c) ==
    IF k > 8 THEN <<>>
    ELSE LET t == ColSum(x, y, k, k) + c
         IN  <<t % 256>> \o MulFrom(x, y, k + 1, t \div 256)

\* x * y of two int64
Mul64(x, y) == MulFrom(x, y, 1, 0)

\* time.Second, a Duration in nanoseconds
Second == I64(1000000000)

\* The values of interval_seconds and timeout_seconds in a request body:
\* negative, 0 (or the field missing), 1, 60, and the two around
\* (2^63 - 1) / 10^9: 9223372036 and 9223372037.
Seconds ==
    { I64(-1), Zero64, I64(1), I64(60),
      <<4, 125, 193, 37, 2, 0, 0, 0>>, <<5, 125, 193, 37, 2, 0, 0, 0>> }

\* The request bodies, as decoded into req (name and url apart).
Bodies == [interval : Seconds, timeout : Seconds]

\* A body with neither interval_seconds nor timeout_seconds.
NoBody == [interval |-> Zero64, timeout |-> Zero64]

\* interval_seconds DEFAULT 60, timeout_seconds DEFAULT 10
DefaultTiming == [interval |-> I64(60), timeout |-> I64(10)]

\* No Monitor is being built by a handler.
NoTiming == [interval |-> Zero64, timeout |-> Zero64]

\* Nothing has been handed to Add or Restart yet.
NoHandOver == [op |-> "none", interval |-> Zero64, timeout |-> Zero64,
               tick |-> Zero64]

\* startWorker, line 98: time.Duration(m.IntervalSeconds) * time.Second,
\* the Duration handed to time.NewTicker (line 115).
TickInterval(m) == Mul64(m.interval, Second)

\* handleMonitorCreate, lines 28-40: the Monitor built from a body.
CreateTiming(body) ==
    [interval |-> IF Positive64(body.interval) THEN body.interval ELSE I64(60),
     timeout  |-> IF Positive64(body.timeout) THEN body.timeout ELSE I64(10)]

\* handleMonitorUpdate, lines 119-124: only the fields provided are applied.
UpdateTiming(existing, body) ==
    [interval |-> IF Positive64(body.interval) THEN body.interval
                  ELSE existing.interval,
     timeout  |-> IF Positive64(body.timeout) THEN body.timeout
                  ELSE existing.timeout]

\* The Monitor m goes to Checker.Add or Checker.Restart.
HandOver(op, m) ==
    [op |-> op, interval |-> m.interval, timeout |-> m.timeout,
     tick |-> TickInterval(m)]

VARIABLES
    phase,          \* "init" | "running" | "failed": Start not yet called, returned nil, returned an error
    monitors,       \* the monitors table: id -> [state, failures]
    config,         \* interval_seconds and timeout_seconds: of the rows, of the request in progress, as last handed to the checker
    outcomes,       \* id -> the verdicts of the monitor's ticks so far (seq), none of which had a storage call fail (clean)
    urls,           \* the monitors table: id -> the url column is a URL that http.NewRequest accepts
    lastCheck,      \* the newest row of the checks table
    lateCheck,      \* a row was inserted [stop: after Stop returned, remove: by a probe begun after Remove returned]
    cancel,         \* Checker.cancel: id -> loop whose CancelFunc is registered (0 = no entry)
    loops,          \* every polling loop ever created, in creation order
    wg,             \* Checker.wg counter
    sweeper,        \* the prune goroutine of Start: "none" | "running" (at its select) |
                    \* "pruning" (in PruneOldChecks) | "logging" (the prune failed) | "exited"
    rootCancelled,  \* the context handed to Start is cancelled
    calls,          \* the supervisor calls in progress (Add, Restart, Remove)
    stop,           \* the Stop() call
    removed,        \* id -> the loop that a Remove(id), since returned, cancelled (0: none)
    lastTick,       \* the last updateState that reached its decision
    handler,        \* the HTTP handler of /api/monitors in progress
    alert           \* the Alerter and its Notify call

vars == <<phase, monitors, config, outcomes, urls, lastCheck, lateCheck, cancel, loops, wg, sweeper,
          rootCancelled, calls, stop, removed, lastTick, handler, alert>>

\* The Checker, its goroutines, its callers and the tables it writes.
checkerVars == <<phase, monitors, config, outcomes, urls, lastCheck, lateCheck, cancel, loops, wg, sweeper,
                 rootCancelled, calls, stop, removed, lastTick, handler>>

\* The ids of the monitor rows.
IDs == DOMAIN monitors

\* ------------------------------------------------------------ the schema
\* monitors.state DEFAULT 'unknown', monitors.consecutive_failures DEFAULT 0
NewRow == [state |-> "unknown", failures |-> 0]

NoRead == [state |-> "none", failures |-> 0]

\* lastCheck: of the newest row of checks, monitor_id (mid), is_up (isUp) and
\* status_code (status, 0 for NULL), the answer the probe had got (resp), and
\* whether the error of client.Do was that of the cancelled workerCtx (aborted).
NoCheck == [mid |-> 0, isUp |-> FALSE, status |-> 0,
            resp |-> [err |-> FALSE, code |-> 0], aborted |-> FALSE]

\* lastTick: of the last updateState that got its row, the monitor (mid),
\* the probe's verdict (isUp), the state and count Get returned (prev, prevF),
\* those handed to UpdateState (new, newF), whether UpdateState succeeded
\* (wrote), the row after the call (after) and the Notify calls made (notify).
NoTick == [mid |-> 0, isUp |-> FALSE, prev |-> "none", prevF |-> 0,
           new |-> "none", newF |-> 0, wrote |-> FALSE, after |-> NoRead,
           notify |-> 0]

\* outcomes: of a monitor, is-up of every tick that has ended (seq), as
\* long as every storage call of every tick has succeeded (clean).
NoOutcomes == [seq |-> <<>>, clean |-> TRUE]

\* A tick of monitor id has ended: its verdict, or that a storage call of
\* it failed.
Outcome(o, obs, id, ok, isUp) ==
    IF "seq" \notin obs \/ id \notin DOMAIN o THEN o
    ELSE IF ~o[id].clean THEN o
    ELSE IF ok THEN [o EXCEPT ![id].seq = Append(o[id].seq, isUp)]
    ELSE [o EXCEPT ![id].clean = FALSE]

IdleCall == [op |-> "none", id |-> 0, pc |-> "idle", lp |-> 0]

IdleHandler == [op |-> "none", id |-> 0, pc |-> "idle"]

\* An Alerter made by NewAlerter(url) on which Notify has not been called:
\* pc is the place in Notify, posts counts the calls of post that the Notify
\* call in progress has made, first and second are what they got, history
\* holds the number of posts of every Notify call that has returned.
NoAlert(url) == [url |-> url, pc |-> "idle", posts |-> 0,
                 first |-> NoAnswer, second |-> NoAnswer, history |-> <<>>]

\* --------------------------------------------------------- pure functions
\* IsUp with the upper end of the range included.
IsUpOfInclusive(resp) == (~resp.err) /\ resp.code >= 200 /\ resp.code <= 400

\* probe: check.IsUp = code >= 200 && code < 400, only when httpErr == nil
IsUpOf(resp) == (~resp.err) /\ resp.code >= 200 /\ resp.code < 400

\* A status code kept only for a check that is up.
StatusOfUpOnly(resp) ==
    IF (~resp.err) /\ resp.code >= 200 /\ resp.code < 400 THEN resp.code ELSE 0

\* probe: check.StatusCode = &code only when httpErr == nil (0 models nil)
StatusOf(resp) == IF resp.err THEN 0 ELSE resp.code

\* NextState with the threshold compared by > instead of >=.
NextStateOffByOne(m, isUp) ==
    IF isUp
    THEN [state |-> "up", failures |-> 0]
    ELSE LET failures == m.failures + 1
         IN  IF failures > failureThreshold
             THEN [state |-> "down", failures |-> failures]
             ELSE [state |-> m.state, failures |-> failures]

\* NextState that keeps the failure count on a probe that is up.
NextStateNoReset(m, isUp) ==
    IF isUp
    THEN [state |-> "up", failures |-> m.failures]
    ELSE LET failures == m.failures + 1
         IN  IF failures >= failureThreshold
             THEN [state |-> "down", failures |-> failures]
             ELSE [state |-> m.state, failures |-> failures]

\* NextState that resets the count on a probe that is up and keeps the state.
NextStateStaysDown(m, isUp) ==
    IF isUp
    THEN [state |-> m.state, failures |-> 0]
    ELSE LET failures == m.failures + 1
         IN  IF failures >= failureThreshold
             THEN [state |-> "down", failures |-> failures]
             ELSE [state |-> m.state, failures |-> failures]

\* NextState that takes any failure of a monitor not yet seen up or down
\* for a failure of a monitor that is up.
NextStateNoHold(m, isUp) ==
    IF isUp
    THEN [state |-> "up", failures |-> 0]
    ELSE LET failures == m.failures + 1
         IN  IF failures >= failureThreshold
             THEN [state |-> "down", failures |-> failures]
             ELSE [state |-> "up", failures |-> failures]

\* updateState, lines 188-202: the new state and failure count from the row
\* that Get returned and the probe's verdict.
NextState(m, isUp) ==
    IF isUp
    THEN [state |-> "up", failures |-> 0]
    ELSE LET failures == m.failures + 1
         IN  IF failures >= failureThreshold
             THEN [state |-> "down", failures |-> failures]
             ELSE [state |-> m.state, failures |-> failures]

\* A Notify call on every tick that decides "down".
NotifyWheneverDown(prev, new) == IF new = "down" THEN 1 ELSE 0

\* updateState: the number of Alerter.Notify invocations it makes for a tick
\* that read state prev and decided state new.  The function holds no call
\* of Notify (the Checker has no Alerter), so the number is 0.
NotifyCalls(prev, new) == 0

\* An UPDATE that sets consecutive_failures and leaves state alone.
UpdateCountOnly(row, state, failures) == [row EXCEPT !.failures = failures]

\* Store.UpdateState: UPDATE monitors SET state = ?, consecutive_failures = ?
\* WHERE id = ?, the row after it.
UpdateState(row, state, failures) == [state |-> state, failures |-> failures]

\* An UPDATE with no WHERE clause: every row of the table is written.
WriteEveryRow(rows, id, row) == [i \in DOMAIN rows |-> row]

\* Store.UpdateState: ... WHERE id = ?, the table after it.
WriteRow(rows, id, row) == [rows EXCEPT ![id] = row]

\* ---------------------------------------------------------------- helpers
LoopIds == 1..Len(loops)

\* A polling loop: the goroutine of startWorker and its workerCtx.
\*   pc        "unborn" (context made, goroutine not started), "stagger",
\*             "http" (in client.Do), "get", "write" (in updateState),
\*             "wait" (the ticker select), "exited"
\*   ctx       the parent of workerCtx: "root" (Start's) or "req" (the caller's)
\*   cancelled workerCtx is done
\*   ticking   the ticker of line 115 exists
\*   tick      the loop entered the select with a tick buffered in ticker.C
\*             and workerCtx done
\*   pre       workerCtx was done when the request in flight was built
\*   late      the probe in flight began after the Remove that cancelled the
\*             loop had returned
\*   rec       RecordCheck has inserted the Check of the probe in flight
\*   isUp, rd  check.IsUp of the probe, the row that Get returned
NewLoop(id, ctx) ==
    [mid |-> id, pc |-> "unborn", ctx |-> ctx,
     cancelled |-> (ctx = "root" /\ rootCancelled),
     ticking |-> FALSE, tick |-> FALSE, pre |-> FALSE, late |-> FALSE,
     rec |-> FALSE, isUp |-> FALSE, rd |-> NoRead]

\* The goroutine has returned: nothing of it is left but its monitor id.
Exited(lp) == [NewLoop(lp.mid, "root") EXCEPT !.pc = "exited", !.cancelled = TRUE]

\* context.CancelFunc of loop l (0: nothing to cancel)
Cancelled(ls, l) ==
    IF l = 0 \/ ls[l].pc = "exited" THEN ls ELSE [ls EXCEPT ![l].cancelled = TRUE]

\* A loop whose goroutine is running.
Running(l) == loops[l].pc \notin {"unborn", "exited"}

\* A running loop that has not been told to stop.
Live(l) == Running(l) /\ ~loops[l].cancelled

\* Loop l is inside probe(): a probe-record-update cycle is in flight.
InCycle(l) == loops[l].pc \in {"http", "get", "write"}

CallsIdle == \A c \in 1..MaxCalls : calls[c].pc = "idle"

\* A loop that returns after its probe instead of waiting for the next tick.
WaitingExits(lp, tick) == [lp EXCEPT !.pc = "exited"]

\* probe() has returned and the loop enters the ticker select (lines 115-124).
\* The ticker is made after the first probe (line 115); from then on it
\* runs during the probes too, so that a later probe may find a tick
\* buffered in ticker.C (buffer of one) when it returns.  The buffered tick
\* is recorded when the context is done as well: only then does the select
\* have two ready cases (otherwise ProbeStart takes the tick as any other).
Waiting(lp, tick) ==
    [lp EXCEPT !.pc = "wait", !.tick = (lp.ticking /\ tick /\ lp.cancelled),
               !.ticking = TRUE,
               !.pre = FALSE, !.late = FALSE, !.rec = FALSE, !.isUp = FALSE,
               !.rd = NoRead]

\* probe() that calls updateState whether or not RecordCheck failed.
AfterRecordGoesOn(lp, recorded, isUp, tick) ==
    [lp EXCEPT !.pc = "get", !.rec = recorded, !.isUp = isUp,
               !.pre = FALSE, !.late = FALSE]

\* probe, lines 174-179: after RecordCheck the loop goes on to updateState,
\* or, RecordCheck having failed, returns from probe() to the ticker select.
AfterRecord(lp, recorded, isUp, tick) ==
    IF recorded
    THEN [lp EXCEPT !.pc = "get", !.rec = TRUE, !.isUp = isUp,
                    !.pre = FALSE, !.late = FALSE]
    ELSE Waiting(lp, tick)

\* ------------------------------------------------------------------ Init
\* The state after NewChecker, with n rows in the monitors table whose
\* urls are accepted by http.NewRequest or not, as wellFormed allows.
InitRows(n, wellFormed) ==
    /\ phase = "init"
    /\ monitors = [i \in 1..n |-> NewRow]
    /\ urls \in [1..n -> wellFormed]
    /\ outcomes = [i \in 1..n |-> NoOutcomes]
    /\ config = [rows |-> [i \in 1..n |-> DefaultTiming], m |-> NoTiming,
                 handed |-> NoHandOver]
    /\ lastCheck = NoCheck
    /\ lateCheck = [stop |-> FALSE, remove |-> FALSE]
    /\ cancel = [i \in 1..n |-> 0]
    /\ loops = <<>>
    /\ wg = 0
    /\ sweeper = "none"
    /\ rootCancelled = FALSE
    /\ calls = [c \in 1..MaxCalls |-> IdleCall]
    /\ stop = [pc |-> "idle", ids |-> {}, cur |-> 0, lp |-> 0]
    /\ removed = [i \in 1..n |-> 0]
    /\ lastTick = NoTick
    /\ handler = IdleHandler

\* The state after NewChecker, with n monitors of well-formed urls.
InitChecker(n) == InitRows(n, {TRUE})

\* A database of MaxMonitors monitors; no webhook is configured.
Init == InitChecker(MaxMonitors) /\ alert = NoAlert("")

\* ----------------------------------------------------------------- Start
\* A Start that launches its prune goroutine before it lists the monitors.
StartFailsPartial ==
    /\ phase = "init"
    /\ phase' = "failed"
    /\ sweeper' = "running"
    /\ wg' = wg + 1
    /\ UNCHANGED <<config, outcomes, urls, handler, alert, monitors, lastCheck, lateCheck, cancel, loops,
                   rootCancelled, calls, stop, removed, lastTick>>

\* Checker.Start, List failing: the error is returned, nothing is started.
StartFails ==
    /\ phase = "init"
    /\ phase' = "failed"
    /\ UNCHANGED <<config, outcomes, urls, handler, alert, monitors, lastCheck, lateCheck, cancel, loops, wg, sweeper,
                   rootCancelled, calls, stop, removed, lastTick>>

\* Checker.Start, List succeeding: startWorker(ctx, m) for every monitor in
\* id order, then the prune goroutine (wg.Add(1)).
StartOk ==
    /\ phase = "init"
    /\ phase' = "running"
    /\ loops' = [i \in IDs |-> [NewLoop(i, "root") EXCEPT !.pc = "stagger"]]
    /\ cancel' = [i \in IDs |-> i]
    /\ wg' = Cardinality(IDs) + 1
    /\ sweeper' = "running"
    /\ UNCHANGED <<config, outcomes, urls, handler, alert, monitors, lastCheck, lateCheck, rootCancelled, calls, stop,
                   removed, lastTick>>

\* The prune goroutine of Start leaves on <-ctx.Done() (defer c.wg.Done()).
SweeperExit ==
    /\ sweeper = "running"
    /\ rootCancelled
    /\ sweeper' = "exited"
    /\ wg' = wg - 1
    /\ UNCHANGED <<config, outcomes, urls, handler, alert, phase, monitors, lastCheck, lateCheck, cancel, loops,
                   rootCancelled, calls, stop, removed, lastTick>>

\* The prune goroutine's select takes <-ticker.C (every 6 hours) and calls
\* PruneOldChecks (lines 50-51).
SweeperTick ==
    /\ sweeper = "running"
    /\ sweeper' = "pruning"
    /\ UNCHANGED <<config, outcomes, urls, handler, alert, phase, monitors, lastCheck, lateCheck,
                   cancel, loops, wg, rootCancelled, calls, stop, removed, lastTick>>

\* A prune goroutine that returns when PruneOldChecks fails.
SweeperPrunedFatal ==
    /\ sweeper = "pruning"
    /\ \E ok \in BOOLEAN :
          /\ sweeper' = IF ok THEN "running" ELSE "exited"
          /\ wg' = IF ok THEN wg ELSE wg - 1
    /\ UNCHANGED <<config, outcomes, urls, handler, alert, phase, monitors, lastCheck, lateCheck,
                   cancel, loops, rootCancelled, calls, stop, removed, lastTick>>

\* PruneOldChecks returns (store.go 164-167): the rows it deletes are older
\* than 7 days, none that is kept here.  With no error the goroutine is back
\* at its select, with an error it goes on to log it (line 52).
SweeperPruned ==
    /\ sweeper = "pruning"
    /\ \E ok \in BOOLEAN :
          /\ sweeper' = IF ok THEN "running" ELSE "logging"
          /\ wg' = wg
    /\ UNCHANGED <<config, outcomes, urls, handler, alert, phase, monitors, lastCheck, lateCheck,
                   cancel, loops, rootCancelled, calls, stop, removed, lastTick>>

\* The error of the prune is logged (line 52) and the goroutine is back at
\* its select.
SweeperLogged ==
    /\ sweeper = "logging"
    /\ sweeper' = "running"
    /\ UNCHANGED <<config, outcomes, urls, handler, alert, phase, monitors, lastCheck, lateCheck,
                   cancel, loops, wg, rootCancelled, calls, stop, removed, lastTick>>

\* The context handed to Start is cancelled (SIGINT/SIGTERM in main): every
\* worker context derived from it is cancelled with it.
RootCancel ==
    /\ phase = "running"
    /\ ~rootCancelled
    /\ rootCancelled' = TRUE
    /\ loops' = [l \in LoopIds |->
                    IF loops[l].ctx = "root" /\ loops[l].pc # "exited"
                    THEN [loops[l] EXCEPT !.cancelled = TRUE] ELSE loops[l]]
    /\ UNCHANGED <<config, outcomes, urls, handler, alert, phase, monitors, lastCheck, lateCheck, cancel, wg, sweeper,
                   calls, stop, removed, lastTick>>

\* The context handed to Add or Restart (the caller's own, not Start's) is
\* cancelled by its owner.
CtxDone(l) ==
    /\ loops[l].ctx = "req"
    /\ loops[l].pc # "exited"
    /\ ~loops[l].cancelled
    /\ loops' = [loops EXCEPT ![l].cancelled = TRUE]
    /\ UNCHANGED <<config, outcomes, urls, handler, alert, phase, monitors, lastCheck, lateCheck, cancel, wg, sweeper,
                   rootCancelled, calls, stop, removed, lastTick>>

\* ------------------------------------------------------- the polling loop
\* A goroutine parked in a select is woken by the first case that becomes
\* ready, and runs that case: a parked loop whose timer fires goes on to
\* probe, one whose context is cancelled returns.  Several cases are ready
\* together only when the select is entered with a tick already buffered and
\* the context already done, and then either is taken.

\* A stagger select that takes its timer though workerCtx is done.
ProbeStartAnyway(l, obs, maxf) ==
    /\ loops[l].pc \in {"stagger", "wait"}
    /\ urls[loops[l].mid]
    /\ loops[l].mid \in IDs => monitors[loops[l].mid].failures < maxf
    /\ loops' = [loops EXCEPT ![l].pc = "http", ![l].tick = FALSE,
                              ![l].pre = loops[l].cancelled,
                              ![l].late = ("remove" \in obs
                                            /\ l = removed[loops[l].mid])]
    /\ UNCHANGED <<config, outcomes, urls, handler, alert, phase, monitors, lastCheck, lateCheck, cancel, wg,
                   sweeper, rootCancelled, calls, stop, removed, lastTick>>

\* The select takes the timer case and probe() is entered: time.After of
\* the stagger (lines 109-113), or ticker.C (lines 121-122), a buffered tick
\* or one that arrives while the loop waits.  The request is built with
\* workerCtx (line 151), from the url the goroutine holds (line 100): no
\* step changes the url column, so that it is the one of the row.  No probe
\* is begun for a row at maxf failures.
ProbeStart(l, obs, maxf) ==
    /\ \/ loops[l].pc = "stagger" /\ ~loops[l].cancelled
       \/ loops[l].pc = "wait" /\ (loops[l].tick \/ ~loops[l].cancelled)
    /\ urls[loops[l].mid]
    /\ loops[l].mid \in IDs => monitors[loops[l].mid].failures < maxf
    /\ "seq" \in obs => Len(outcomes[loops[l].mid].seq) < MaxTicks
    /\ loops' = [loops EXCEPT ![l].pc = "http", ![l].tick = FALSE,
                              ![l].pre = loops[l].cancelled,
                              ![l].late = ("remove" \in obs
                                            /\ l = removed[loops[l].mid])]
    /\ UNCHANGED <<config, outcomes, urls, handler, alert, phase, monitors, lastCheck, lateCheck, cancel, wg, sweeper,
                   rootCancelled, calls, stop, removed, lastTick>>

\* The select takes the timer case and probe() is entered with a url that
\* http.NewRequestWithContext rejects (lines 151-155): the error is logged
\* and probe() returns, to the ticker select.
ProbeBuildFails(l) ==
    /\ \/ loops[l].pc = "stagger" /\ ~loops[l].cancelled
       \/ loops[l].pc = "wait" /\ (loops[l].tick \/ ~loops[l].cancelled)
    /\ ~urls[loops[l].mid]
    /\ \E tick \in BOOLEAN : loops' = [loops EXCEPT ![l] = Waiting(loops[l], tick)]
    /\ UNCHANGED <<config, outcomes, urls, handler, alert, phase, monitors, lastCheck, lateCheck, cancel, wg,
                   sweeper, rootCancelled, calls, stop, removed, lastTick>>

\* The select takes <-workerCtx.Done(): the goroutine returns (wg.Done()).
LoopExit(l) ==
    /\ loops[l].pc \in {"stagger", "wait"}
    /\ loops[l].cancelled
    /\ loops' = [loops EXCEPT ![l] = Exited(loops[l])]
    /\ wg' = wg - 1
    /\ UNCHANGED <<config, outcomes, urls, handler, alert, phase, monitors, lastCheck, lateCheck, cancel, sweeper,
                   rootCancelled, calls, stop, removed, lastTick>>

\* probe, lines 158-180: client.Do returns, the Check is built and
\* RecordCheck inserts it (or fails, and probe returns).  The request
\* carries workerCtx: one whose context was done before it was sent fails at
\* once, and one whose context is done while it is in flight is aborted,
\* client.Do returning the context's error, unless the answer was there
\* first.  RecordCheck and updateState take no context.  The INSERT fails
\* for a monitor that is no longer stored (checks.monitor_id REFERENCES
\* monitors(id), foreign keys on).
ProbeFinish(l, obs) ==
    /\ loops[l].pc = "http"
    /\ \E resp \in Responses, ok \in BOOLEAN, abort \in BOOLEAN :
          /\ loops[l].pre => abort
          /\ abort => (loops[l].cancelled /\ resp.err)
          /\ ok => loops[l].mid \in IDs
          /\ IF ok
             THEN /\ lastCheck' = IF "check" \in obs
                                  THEN [mid |-> loops[l].mid, isUp |-> IsUpOf(resp),
                                        status |-> StatusOf(resp), resp |-> resp,
                                        aborted |-> abort]
                                  ELSE lastCheck
                  /\ lateCheck' = [stop |-> lateCheck.stop \/ stop.pc = "returned",
                                   remove |-> lateCheck.remove \/ loops[l].late]
             ELSE UNCHANGED <<lastCheck, lateCheck>>
          /\ \E tick \in BOOLEAN :
                loops' = [loops EXCEPT ![l] =
                            AfterRecord(loops[l], ok, IsUpOf(resp), tick)]
          /\ outcomes' = IF ok THEN outcomes ELSE Outcome(outcomes, obs, loops[l].mid, FALSE, FALSE)
    /\ UNCHANGED <<config, urls, handler, alert, phase, monitors, cancel, wg, sweeper, rootCancelled, calls,
                   stop, removed, lastTick>>

\* updateState, lines 183-186: Store.Get; an error or no row ends the tick.
\* The failure count is kept within maxf: a failed probe is not taken
\* through a row that holds maxf failures already.
GetRow(l, obs, maxf) ==
    /\ loops[l].pc = "get"
    /\ \E ok \in BOOLEAN, tick \in BOOLEAN :
          /\ ok => loops[l].mid \in IDs
          /\ ok => (loops[l].isUp \/ monitors[loops[l].mid].failures < maxf)
          /\ loops' = IF ok
                      THEN [loops EXCEPT ![l].pc = "write",
                                         ![l].rd = monitors[loops[l].mid]]
                      ELSE [loops EXCEPT ![l] = Waiting(loops[l], tick)]
          /\ outcomes' = IF ok THEN outcomes ELSE Outcome(outcomes, obs, loops[l].mid, FALSE, FALSE)
    /\ UNCHANGED <<config, urls, handler, alert, phase, monitors, lastCheck, lateCheck, cancel, wg, sweeper,
                   rootCancelled, calls, stop, removed, lastTick>>

\* updateState, lines 188-206: the decision and Store.UpdateState, one UPDATE
\* that sets state and consecutive_failures of the row together (or fails);
\* it changes nothing when the row has been deleted since Get.
WriteState(l, obs) ==
    /\ loops[l].pc = "write"
    /\ LET id == loops[l].mid
           ns == NextState(loops[l].rd, loops[l].isUp)
       IN  \E ok \in BOOLEAN :
             LET row == IF id \notin IDs THEN NoRead
                        ELSE IF ok THEN UpdateState(monitors[id], ns.state, ns.failures)
                        ELSE monitors[id]
             IN
             /\ monitors' = IF id \in IDs THEN WriteRow(monitors, id, row)
                            ELSE monitors
             /\ lastTick' = IF "tick" \notin obs THEN lastTick ELSE
                            [mid |-> id, isUp |-> loops[l].isUp,
                             prev |-> loops[l].rd.state,
                             prevF |-> loops[l].rd.failures,
                             new |-> ns.state, newF |-> ns.failures,
                             wrote |-> (ok /\ id \in IDs), after |-> row,
                             notify |-> NotifyCalls(loops[l].rd.state, ns.state)]
             /\ outcomes' = Outcome(outcomes, obs, id, ok /\ id \in IDs, loops[l].isUp)
    /\ \E tick \in BOOLEAN : loops' = [loops EXCEPT ![l] = Waiting(loops[l], tick)]
    /\ UNCHANGED <<config, urls, handler, alert, phase, lastCheck, lateCheck, cancel, wg, sweeper, rootCancelled,
                   calls, stop, removed>>

\* ------------------------------------------------------ supervisor calls
\* Loops that calls in progress are still going to create.
Pending == Cardinality({c \in 1..MaxCalls : calls[c].pc \in {"sw1", "sw2", "reg"}
                                            /\ calls[c].op # "Remove"})

\* Add(ctx, m), Restart(ctx, m) or Remove(id) is called, by any goroutine,
\* for any monitor id; ctx is the caller's own context (the handlers pass
\* r.Context()).  Add enters startWorker at once, the others stopWorker first.
CallBegin(c, ops, maxl) ==
    /\ phase = "running"
    /\ stop.pc # "returned"
    /\ calls[c].pc = "idle"
    /\ \E id \in IDs, op \in ops :
          /\ op # "Remove" => Len(loops) + Pending < Cardinality(IDs) + maxl
          /\ calls' = [calls EXCEPT ![c] =
                 [op |-> op, id |-> id, pc |-> IF op = "Add" THEN "reg" ELSE "sw1",
                  lp |-> 0]]
    /\ UNCHANGED <<config, outcomes, urls, handler, alert, phase, monitors, lastCheck, lateCheck, cancel, loops, wg,
                   sweeper, rootCancelled, stop, removed, lastTick>>

\* stopWorker, lines 129-134: under the lock, look the id up and delete it.
StopWorkerLookup(c) ==
    /\ calls[c].pc = "sw1"
    /\ calls' = [calls EXCEPT ![c].pc = "sw2", ![c].lp = cancel[calls[c].id]]
    /\ cancel' = [cancel EXCEPT ![calls[c].id] = 0]
    /\ UNCHANGED <<config, outcomes, urls, handler, alert, phase, monitors, lastCheck, lateCheck, loops, wg, sweeper,
                   rootCancelled, stop, removed, lastTick>>

\* stopWorker, lines 135-137: cancel() if an entry was found.  Remove then
\* returns; Restart goes on to startWorker.
StopWorkerCancel(c, obs) ==
    /\ calls[c].pc = "sw2"
    /\ loops' = Cancelled(loops, calls[c].lp)
    /\ IF calls[c].op = "Remove"
       THEN /\ calls' = [calls EXCEPT ![c] = IdleCall]
            /\ removed' = IF "remove" \in obs /\ calls[c].lp # 0
                           THEN [removed EXCEPT ![calls[c].id] = calls[c].lp]
                           ELSE removed
       ELSE /\ calls' = [calls EXCEPT ![c].pc = "reg", ![c].lp = 0]
            /\ UNCHANGED removed
    /\ UNCHANGED <<config, outcomes, urls, handler, alert, phase, monitors, lastCheck, lateCheck, cancel, wg, sweeper,
                   rootCancelled, stop, lastTick>>

\* startWorker, lines 92-95: context.WithCancel(ctx), and under the lock
\* c.cancel[m.ID] = cancel, whatever the map held for the id.
Register(c) ==
    /\ calls[c].pc = "reg"
    /\ loops' = Append(loops, NewLoop(calls[c].id, "req"))
    /\ cancel' = [cancel EXCEPT ![calls[c].id] = Len(loops) + 1]
    /\ calls' = [calls EXCEPT ![c].pc = "go", ![c].lp = Len(loops) + 1]
    /\ UNCHANGED <<config, outcomes, urls, handler, alert, phase, monitors, lastCheck, lateCheck, wg, sweeper,
                   rootCancelled, stop, removed, lastTick>>

\* startWorker, lines 102-103: c.wg.Add(1) and the goroutine is started;
\* startWorker returns, and with it Add or Restart.
Spawn(c) ==
    /\ calls[c].pc = "go"
    /\ loops' = [loops EXCEPT ![calls[c].lp].pc = "stagger"]
    /\ wg' = wg + 1
    /\ calls' = [calls EXCEPT ![c] = IdleCall]
    /\ UNCHANGED <<config, outcomes, urls, handler, alert, phase, monitors, lastCheck, lateCheck, cancel, sweeper,
                   rootCancelled, stop, removed, lastTick>>

\* ------------------------------------------------------------------ Stop
\* Stop, lines 79-84: under the lock, the ids of the registry are copied.
StopBegin ==
    /\ phase = "running"
    /\ stop.pc = "idle"
    /\ stop' = [pc |-> "iter", ids |-> {i \in DOMAIN cancel : cancel[i] # 0}, cur |-> 0, lp |-> 0]
    /\ UNCHANGED <<config, outcomes, urls, handler, alert, phase, monitors, lastCheck, lateCheck, cancel, loops, wg,
                   sweeper, rootCancelled, calls, removed, lastTick>>

\* Stop, lines 85-86: stopWorker(id) for the next copied id, its locked part.
StopLookup ==
    /\ stop.pc = "iter"
    /\ \E id \in stop.ids :
          /\ stop' = [stop EXCEPT !.pc = "cancel", !.cur = id, !.lp = cancel[id]]
          /\ cancel' = [cancel EXCEPT ![id] = 0]
    /\ UNCHANGED <<config, outcomes, urls, handler, alert, phase, monitors, lastCheck, lateCheck, loops, wg, sweeper,
                   rootCancelled, calls, removed, lastTick>>

\* Stop, lines 85-86: stopWorker(id), the cancel() after the lock.
StopCancel ==
    /\ stop.pc = "cancel"
    /\ loops' = Cancelled(loops, stop.lp)
    /\ stop' = [stop EXCEPT !.pc = "iter", !.ids = stop.ids \ {stop.cur},
                            !.cur = 0, !.lp = 0]
    /\ UNCHANGED <<config, outcomes, urls, handler, alert, phase, monitors, lastCheck, lateCheck, cancel, wg, sweeper,
                   rootCancelled, calls, removed, lastTick>>

\* Stop, line 88: c.wg.Wait() returns once the counter is zero.
StopReturn ==
    /\ stop.pc = "iter"
    /\ stop.ids = {}
    /\ wg = 0
    /\ stop' = [stop EXCEPT !.pc = "returned"]
    /\ UNCHANGED <<config, outcomes, urls, handler, alert, phase, monitors, lastCheck, lateCheck, cancel, loops, wg,
                   sweeper, rootCancelled, calls, removed, lastTick>>

\* --------------------------------------------------------------- Alerter
\* Alerter.post, lines 61-73: the error it returns.  Marshalling the payload
\* (four strings) cannot fail; client.Post fails on a transport error or
\* timeout; a response of any status is closed and nil is returned.
PostFails(ans) == ans.err

\* Notify(m) is called, lines 36-48: it returns at once when no webhook URL
\* is configured, and otherwise goes on to its first post.
NotifyBegin ==
    /\ alert.pc = "idle"
    /\ Len(alert.history) < MaxNotifies
    /\ alert' = [alert EXCEPT !.pc = IF alert.url = "" THEN "done" ELSE "post1"]
    /\ UNCHANGED checkerVars

\* Notify, line 50: the first a.post(payload); on an error Notify goes to
\* sleep, otherwise it returns.
NotifyPost ==
    /\ alert.pc = "post1"
    /\ \E ans \in WebhookAnswers :
          alert' = [alert EXCEPT !.first = ans, !.posts = alert.posts + 1,
                                 !.pc = IF PostFails(ans) THEN "sleep" ELSE "done"]
    /\ UNCHANGED checkerVars

\* Notify, line 52: time.Sleep(5 * time.Second) ends.
NotifySleep ==
    /\ alert.pc = "sleep"
    /\ alert' = [alert EXCEPT !.pc = "post2"]
    /\ UNCHANGED checkerVars

\* Notify, lines 53-57: the second a.post(payload); whatever it returns is
\* logged and Notify returns.
NotifyRetry ==
    /\ alert.pc = "post2"
    /\ \E ans \in WebhookAnswers :
          alert' = [alert EXCEPT !.second = ans, !.posts = alert.posts + 1,
                                 !.pc = "done"]
    /\ UNCHANGED checkerVars

\* Notify has returned; the Alerter keeps nothing of the call.
NotifyReturn ==
    /\ alert.pc = "done"
    /\ alert' = [NoAlert(alert.url) EXCEPT
                    !.history = Append(alert.history, alert.posts)]
    /\ UNCHANGED checkerVars

\* ---------------------------------------------------------- HTTP handlers
\* The handlers of PUT and DELETE /api/monitors/{id}.  A handler makes its
\* supervisor call as call 1; the id of the path is any id once handed out.

\* handleMonitorUpdate or handleMonitorDelete is entered.  handleMonitorDelete
\* calls s.checker.Remove(id) first of all (line 142).
HandlerBegin(ops, maxl) ==
    /\ phase = "running"
    /\ stop.pc = "idle"
    /\ handler.pc = "idle"
    /\ CallsIdle
    /\ \E id \in DOMAIN cancel, op \in ops \ {"Create"} :
          /\ op = "Update" => Len(loops) < Cardinality(DOMAIN cancel) + maxl
          /\ handler' = [op |-> op, id |-> id,
                         pc |-> IF op = "Update" THEN "get" ELSE "remove"]
          /\ calls' = IF op = "Delete"
                      THEN [calls EXCEPT ![1] =
                              [op |-> "Remove", id |-> id, pc |-> "sw1", lp |-> 0]]
                      ELSE calls
    /\ UNCHANGED <<config, outcomes, urls, alert, phase, monitors, lastCheck, lateCheck, cancel, loops, wg,
                   sweeper, rootCancelled, stop, removed, lastTick>>

\* handleMonitorUpdate, lines 91-124: Store.Get; an error or no row ends the
\* request (500, 404), as does a body that is not JSON (400); otherwise the
\* fields of the body are applied to the row that Get returned.
HandlerGet(bodies) ==
    /\ handler.pc = "get"
    /\ \E ok \in BOOLEAN, body \in bodies :
          IF ok /\ handler.id \in IDs
          THEN /\ handler' = [handler EXCEPT !.pc = "update"]
               /\ config' = [config EXCEPT
                                !.m = UpdateTiming(config.rows[handler.id], body)]
          ELSE /\ handler' = IdleHandler
               /\ UNCHANGED config
    /\ UNCHANGED <<outcomes, urls, alert, phase, monitors, lastCheck, lateCheck, cancel, loops, wg,
                   sweeper, rootCancelled, calls, stop, removed, lastTick>>

\* A Store.Update that puts state and consecutive_failures back to their
\* defaults.
HandlerUpdateResets ==
    /\ handler.pc = "update"
    /\ \E ok \in BOOLEAN :
          IF ok /\ handler.id \in IDs
          THEN /\ handler' = [handler EXCEPT !.pc = "restart"]
               /\ calls' = [calls EXCEPT ![1] =
                       [op |-> "Restart", id |-> handler.id, pc |-> "sw1", lp |-> 0]]
               /\ config' = [config EXCEPT !.rows[handler.id] = config.m,
                                           !.m = NoTiming,
                                           !.handed = HandOver("Restart", config.m)]
               /\ monitors' = [monitors EXCEPT ![handler.id] = NewRow]
          ELSE /\ handler' = IdleHandler
               /\ calls' = calls
               /\ config' = [config EXCEPT !.m = NoTiming]
               /\ monitors' = monitors
    /\ UNCHANGED <<outcomes, urls, alert, phase, lastCheck, lateCheck, cancel, loops, wg,
                   sweeper, rootCancelled, stop, removed, lastTick>>

\* handleMonitorUpdate, lines 126-130: Store.Update (name, url, interval and
\* timeout: state and consecutive_failures stay); an error or no row ends
\* the request, otherwise s.checker.Restart(r.Context(), existing) is called.
HandlerUpdate ==
    /\ handler.pc = "update"
    /\ \E ok \in BOOLEAN :
          IF ok /\ handler.id \in IDs
          THEN /\ handler' = [handler EXCEPT !.pc = "restart"]
               /\ calls' = [calls EXCEPT ![1] =
                       [op |-> "Restart", id |-> handler.id, pc |-> "sw1", lp |-> 0]]
               /\ config' = [config EXCEPT !.rows[handler.id] = config.m,
                                           !.m = NoTiming,
                                           !.handed = HandOver("Restart", config.m)]
          ELSE /\ handler' = IdleHandler
               /\ calls' = calls
               /\ config' = [config EXCEPT !.m = NoTiming]
    /\ UNCHANGED <<outcomes, urls, alert, phase, monitors, lastCheck, lateCheck, cancel, loops, wg,
                   sweeper, rootCancelled, stop, removed, lastTick>>

\* handleMonitorDelete, lines 143-147: Remove has returned; Store.Delete
\* deletes the row, or fails (500) and the row stays.  The handler returns.
HandlerDelete ==
    /\ handler.pc = "remove"
    /\ calls[1].pc = "idle"
    /\ \E ok \in BOOLEAN :
          monitors' = IF ok THEN [i \in IDs \ {handler.id} |-> monitors[i]]
                      ELSE monitors
    /\ handler' = IdleHandler
    /\ UNCHANGED <<config, outcomes, urls, alert, phase, lastCheck, lateCheck, cancel, loops, wg,
                   sweeper, rootCancelled, calls, stop, removed, lastTick>>

\* handleMonitorCreate is entered, lines 14-40: the body is decoded (a body
\* that is not JSON, or with a blank name or url, ends the request with 400
\* and nothing done) and the Monitor is built.  No more than maxm ids are
\* handed out.
HandlerCreateBegin(ops, bodies, maxm) ==
    /\ "Create" \in ops
    /\ phase = "running"
    /\ stop.pc = "idle"
    /\ handler.pc = "idle"
    /\ CallsIdle
    /\ Cardinality(DOMAIN cancel) < maxm
    /\ \E body \in bodies :
          config' = [config EXCEPT !.m = CreateTiming(body)]
    /\ handler' = [op |-> "Create", id |-> 0, pc |-> "create"]
    /\ UNCHANGED <<outcomes, urls, alert, phase, monitors, lastCheck, lateCheck, cancel,
                   loops, wg, sweeper, rootCancelled, calls, stop, removed, lastTick>>

\* handleMonitorCreate, lines 41-45: Store.Create inserts the row, with the
\* next id of the table (AUTOINCREMENT: no id is handed out twice) and the
\* defaults of the schema, or fails (500); then s.checker.Add(r.Context(), m).
HandlerCreate ==
    /\ handler.pc = "create"
    /\ \E ok \in BOOLEAN :
          LET id == Cardinality(DOMAIN cancel) + 1
          IN  IF ok
              THEN /\ monitors' = [i \in IDs \cup {id} |->
                                     IF i = id THEN NewRow ELSE monitors[i]]
                   /\ urls' = Append(urls, TRUE)
                   /\ outcomes' = Append(outcomes, NoOutcomes)
                   /\ cancel' = Append(cancel, 0)
                   /\ removed' = Append(removed, 0)
                   /\ config' = [rows |-> Append(config.rows, config.m),
                                 m |-> NoTiming,
                                 handed |-> HandOver("Add", config.m)]
                   /\ calls' = [calls EXCEPT ![1] =
                           [op |-> "Add", id |-> id, pc |-> "reg", lp |-> 0]]
                   /\ handler' = [handler EXCEPT !.id = id, !.pc = "add"]
              ELSE /\ handler' = IdleHandler
                   /\ config' = [config EXCEPT !.m = NoTiming]
                   /\ UNCHANGED <<monitors, urls, outcomes, cancel, removed, calls>>
    /\ UNCHANGED <<alert, phase, lastCheck, lateCheck, loops, wg, sweeper,
                   rootCancelled, stop, lastTick>>

\* handleMonitorCreate, lines 45-50, and handleMonitorUpdate, lines 130-134:
\* Add or Restart has returned, the response is written and the handler
\* returns: the server cancels r.Context(), the parent of the context of
\* the loop that the call started (the newest one).
HandlerReturn ==
    /\ handler.pc \in {"restart", "add"}
    /\ calls[1].pc = "idle"
    /\ loops' = Cancelled(loops, Len(loops))
    /\ handler' = IdleHandler
    /\ UNCHANGED <<config, outcomes, urls, alert, phase, monitors, lastCheck, lateCheck, cancel, wg,
                   sweeper, rootCancelled, calls, stop, removed, lastTick>>

\* ------------------------------------------------------------ next state
LoopStep(obs, maxf) ==
    \E l \in LoopIds :
        \/ ProbeStart(l, obs, maxf)
        \/ LoopExit(l)
        \/ ProbeFinish(l, obs)
        \/ GetRow(l, obs, maxf)
        \/ WriteState(l, obs)

\* The owner of a caller's context cancels it.
CtxStep == \E l \in LoopIds : CtxDone(l)

CallStep(ncalls, ops, maxl, obs) ==
    \E c \in 1..ncalls :
        \/ CallBegin(c, ops, maxl)
        \/ StopWorkerLookup(c)
        \/ StopWorkerCancel(c, obs)
        \/ Register(c)
        \/ Spawn(c)

\* The steps of the supervisor call that a handler has made.
SupervisorStep(c, obs) ==
    \/ StopWorkerLookup(c)
    \/ StopWorkerCancel(c, obs)
    \/ Register(c)
    \/ Spawn(c)

HandlerStep(ops, maxl, bodies) ==
    \/ HandlerBegin(ops, maxl)
    \/ HandlerGet(bodies)
    \/ HandlerUpdate
    \/ HandlerDelete
    \/ HandlerReturn

StopStep == StopBegin \/ StopLookup \/ StopCancel \/ StopReturn

StartStep == StartFails \/ StartOk

Environment == RootCancel \/ SweeperExit

\* The specifications differ in the callers of the supervisor and in the
\* history variables they keep: "tick" keeps lastTick, "check" lastCheck,
\* "remove" removed and with it lateCheck.remove.

\* One goroutine calling Add, Restart and Remove, one after the other,
\* while the loops run.
Next ==
    \/ StartStep
    \/ LoopStep({"remove"}, MaxFailures)
    \/ CallStep(1, {"Add", "Restart", "Remove"}, MaxLoops, {"remove"})
    \/ CtxStep

Spec == Init /\ [][Next]_vars

\* The probe ticks: as Spec, with the last state update kept in lastTick.
NextTick ==
    \/ StartStep
    \/ LoopStep({"tick"}, MaxFailures)
    \/ CallStep(1, {"Add", "Restart", "Remove"}, MaxLoops, {})
    \/ CtxStep

SpecTick == Init /\ [][NextTick]_vars

\* Shutdown: main calls Stop while one goroutine calls Add and Remove.
NextStop ==
    \/ StartStep
    \/ LoopStep({}, MaxFailures)
    \/ CallStep(1, {"Add", "Remove"}, MaxLoops, {})
    \/ CtxStep
    \/ StopStep
    \/ Environment

SpecStop == Init /\ [][NextStop]_vars

\* MaxCalls goroutines calling Restart at once (two PUT requests for the
\* same monitor, each in its own handler goroutine).
NextRestart ==
    \/ StartStep
    \/ LoopStep({}, MaxFailures)
    \/ CallStep(MaxCalls, {"Restart"}, MaxRestarts, {})

SpecRestart == Init /\ [][NextRestart]_vars

\* The HTTP API: one request at a time to PUT or DELETE /api/monitors/{id}
\* while the loops run.
NextApi ==
    \/ StartStep
    \/ LoopStep({}, MaxFailures)
    \/ HandlerStep({"Update", "Delete"}, MaxLoops, {NoBody})
    \/ SupervisorStep(1, {})

SpecApi == Init /\ [][NextApi]_vars

\* The loops left to themselves: MaxProbed monitors are probed, with no call
\* of the supervisor after Start, until the process is told to end;
\* lastTick and lastCheck are kept.
InitProbe == InitChecker(MaxProbed) /\ alert = NoAlert("")

NextProbe ==
    \/ StartStep
    \/ LoopStep({"tick", "check"}, MaxFailures)
    \/ Environment

SpecProbe == InitProbe /\ [][NextProbe]_vars

\* A step of polling loop l, with no end to its probing: the failure count
\* stays within MaxFailures by GetRow alone.
LiveStep(l) ==
    /\ l \in LoopIds
    /\ \/ ProbeStart(l, {"tick"}, MaxFailures + 1)
       \/ LoopExit(l)
       \/ ProbeFinish(l, {"tick"})
       \/ GetRow(l, {"tick"}, MaxFailures)
       \/ WriteState(l, {"tick"})

\* The loops of Start under fair scheduling: a goroutine that can run does
\* run, a timer that is waited on fires, and client.Do and the storage calls
\* return (http.Client.Timeout, busy_timeout).
NextLive ==
    \/ StartStep
    \/ \E l \in LoopIds : LiveStep(l)
    \/ Environment

SpecLive ==
    /\ Init
    /\ [][NextLive]_vars
    /\ \A l \in 1..MaxMonitors : WF_vars(LiveStep(l))

\* A step of polling loop l as in LiveStep, with lastCheck kept alone.
FrameStep(l) ==
    /\ l \in LoopIds
    /\ \/ ProbeStart(l, {"check"}, MaxFailures + 1)
       \/ LoopExit(l)
       \/ ProbeFinish(l, {"check"})
       \/ GetRow(l, {"check"}, MaxFailures)
       \/ WriteState(l, {"check"})

\* MaxProbed monitors probed under fair scheduling.
NextFrame ==
    \/ StartStep
    \/ \E l \in LoopIds : FrameStep(l)
    \/ Environment

SpecFrame ==
    /\ InitProbe
    /\ [][NextFrame]_vars
    /\ \A l \in 1..MaxProbed : WF_vars(FrameStep(l))

\* A step of polling loop l as in LiveStep, with no history kept and the
\* failure count within MaxFew.
QuietStep(l) ==
    /\ l \in LoopIds
    /\ \/ ProbeStart(l, {}, MaxFew + 1)
       \/ LoopExit(l)
       \/ ProbeFinish(l, {})
       \/ GetRow(l, {}, MaxFew)
       \/ WriteState(l, {})

\* Every way of cancelling a loop, Restart, Remove, Stop, the caller's
\* context and the context of Start, with the loops scheduled fairly.
NextCancel ==
    \/ StartStep
    \/ \E l \in LoopIds : QuietStep(l)
    \/ CallStep(1, {"Restart", "Remove"}, MaxLoops, {})
    \/ CtxStep
    \/ StopStep
    \/ Environment

SpecCancel ==
    /\ Init
    /\ [][NextCancel]_vars
    /\ \A l \in 1..(MaxMonitors + MaxLoops) : WF_vars(QuietStep(l))

\* One monitor and the loop that Start gives it, for MaxTicks ticks, with
\* the verdicts of the ticks kept in outcomes; the failure count is not held
\* back (MaxTicks failures in a row are let through).
NextSeq ==
    \/ StartStep
    \/ LoopStep({"seq"}, MaxTicks + 1)
    \/ Environment

SpecSeq == Init /\ [][NextSeq]_vars

SweeperStep == SweeperTick \/ SweeperPruned \/ SweeperLogged

\* The prune goroutine at work beside the loops of Start.
NextSweep ==
    \/ StartStep
    \/ LoopStep({}, MaxFailures)
    \/ SweeperStep
    \/ Environment

SpecSweep == Init /\ [][NextSweep]_vars

\* The steps of handleMonitorCreate.
CreateStep(ops, bodies, maxm) ==
    \/ HandlerCreateBegin(ops, bodies, maxm)
    \/ HandlerCreate

\* POST /api/monitors and PUT /api/monitors/{id} with every body of Bodies,
\* and DELETE, one request at a time; the loops are created and left where
\* they start.
NextBody ==
    \/ StartStep
    \/ CreateStep({"Create"}, Bodies, MaxMonitors + MaxCreated)
    \/ HandlerStep({"Update", "Delete"}, MaxLoops, Bodies)
    \/ SupervisorStep(1, {})

SpecBody == Init /\ [][NextBody]_vars

\* Stop called at any time after Start, while a goroutine calls Add and
\* Remove.  The goroutines are scheduled fairly: the loops, the prune
\* goroutine, the caller of Add and Remove and the caller of Stop run when
\* they can, and a select that is entered again and again with its context
\* done takes that case in the end (the choice among ready cases is drawn
\* at random).  Nothing makes the owner of a context cancel it: RootCancel
\* and CtxStep may never happen.
NextHalt ==
    \/ StartStep
    \/ \E l \in LoopIds : QuietStep(l)
    \/ CallStep(1, {"Add", "Remove"}, MaxLoops, {})
    \/ CtxStep
    \/ StopStep
    \/ Environment

SpecHalt ==
    /\ Init
    /\ [][NextHalt]_vars
    /\ \A l \in 1..(MaxMonitors + MaxLoops) :
          WF_vars(QuietStep(l)) /\ SF_vars(l \in LoopIds /\ LoopExit(l))
    /\ WF_vars(StopStep)
    /\ WF_vars(SweeperExit)
    /\ WF_vars(CallStep(1, {"Add", "Remove"}, MaxLoops, {}))

\* Restart and Remove cancelling loops that are probing, with the newest
\* check kept in lastCheck.
NextAbort ==
    \/ StartStep
    \/ LoopStep({"check"}, MaxFailures)
    \/ CallStep(1, {"Restart", "Remove"}, MaxLoops, {})

SpecAbort == Init /\ [][NextAbort]_vars

\* The HTTP API from an empty database on: one request at a time to
\* create, update or delete a monitor while the loops run.
InitCreate == InitChecker(0) /\ alert = NoAlert("")

NextCreate ==
    \/ StartStep
    \/ LoopStep({}, MaxFailures)
    \/ CreateStep({"Create"}, {NoBody}, MaxCreated)
    \/ HandlerStep({"Update", "Delete"}, MaxLoops, {NoBody})
    \/ SupervisorStep(1, {})

SpecCreate == InitCreate /\ [][NextCreate]_vars

\* Monitors as the API stores them: handleMonitorCreate takes any url that
\* is not blank, one that http.NewRequest rejects included.
InitUrl ==
    /\ InitRows(MaxMonitors, BOOLEAN)
    /\ alert = NoAlert("")

NextUrl ==
    \/ StartStep
    \/ LoopStep({"tick", "check"}, MaxFailures)
    \/ \E l \in LoopIds : ProbeBuildFails(l)
    \/ Environment

SpecUrl == InitUrl /\ [][NextUrl]_vars

\* The Alerter on its own: NewAlerter with or without a webhook URL, and
\* Notify called up to MaxNotifies times, one call after the other.
InitNotify ==
    /\ InitChecker(MaxMonitors)
    /\ \E url \in {"", "hook"} : alert = NoAlert(url)

NextNotify ==
    \/ NotifyBegin
    \/ NotifyPost
    \/ NotifySleep
    \/ NotifyRetry
    \/ NotifyReturn

SpecNotify == InitNotify /\ [][NextNotify]_vars

\* ================================================================ claims

\* C1: a tick's state update goes from a state other than "down" (the state
\* it read) to "down" (the state it hands to UpdateState) if and only if the
\* probe failed and the new consecutive-failure count is exactly 3: not at
\* count 1 or 2, and not first at a count above 3.
DownExactlyAtThreshold ==
    lastTick.mid # 0 =>
        ((lastTick.prev # "down" /\ lastTick.new = "down")
            <=> (~lastTick.isUp /\ lastTick.newF = 3))

\* C1 witness: a monitor that was up went down on its third failure in a row.
DownExactlyAtThresholdWitness ==
    /\ lastTick.prev = "up" /\ lastTick.prevF = 2
    /\ ~lastTick.isUp /\ lastTick.new = "down" /\ lastTick.newF = 3
    /\ lastTick.wrote
    /\ monitors[lastTick.mid] = [state |-> "down", failures |-> 3]

\* C2: whatever state and failure count the tick read, a tick whose probe is
\* up and whose storage calls succeed leaves the row at state "up" with 0
\* consecutive failures.
UpResetsFailures ==
    (lastTick.mid # 0 /\ lastTick.isUp /\ lastTick.wrote) =>
        lastTick.after = [state |-> "up", failures |-> 0]

\* C2 witness: a monitor that was down with 3 failures was probed up.
UpResetsFailuresWitness ==
    /\ lastTick.isUp /\ lastTick.wrote
    /\ lastTick.prev = "down" /\ lastTick.prevF >= 3
    /\ monitors[lastTick.mid] = [state |-> "up", failures |-> 0]

\* C3: a failing probe that brings the count to 1 or 2 adds exactly one to
\* the count the tick read and keeps the state the tick read, in the
\* decision and in the row it writes.
HoldsStateBelowThreshold ==
    (lastTick.mid # 0 /\ ~lastTick.isUp /\ lastTick.newF \in {1, 2}) =>
        /\ lastTick.newF = lastTick.prevF + 1
        /\ lastTick.new = lastTick.prev
        /\ lastTick.wrote =>
              lastTick.after = [state |-> lastTick.prev, failures |-> lastTick.prevF + 1]

\* C3 witness: the first failing probe of a monitor never probed before
\* left it "unknown" with one failure.
HoldsStateBelowThresholdWitness ==
    /\ ~lastTick.isUp /\ lastTick.wrote
    /\ lastTick.prev = "unknown" /\ lastTick.prevF = 0
    /\ monitors[lastTick.mid] = [state |-> "unknown", failures |-> 1]

\* C4: in every row of the monitors table, 3 or more consecutive failures
\* come with state "down", whatever the loops and the supervisor calls do.
ThresholdImpliesDown ==
    \A id \in IDs : monitors[id].failures >= 3 => monitors[id].state = "down"

\* C4 witness: a row at 3 or more failures while two loops of its monitor
\* are running, one of them between its Get and its UpdateState.
ThresholdImpliesDownWitness ==
    \E id \in IDs :
        /\ monitors[id].failures >= 3
        /\ \E l1, l2 \in LoopIds :
              /\ l1 # l2
              /\ loops[l1].mid = id /\ loops[l2].mid = id
              /\ loops[l1].pc = "write" /\ Running(l2)

\* C5: every tick whose state update goes from a state other than "down"
\* to "down" invokes Alerter.Notify exactly once.
NotifiesOnDownEdge ==
    (lastTick.mid # 0 /\ lastTick.prev # "down" /\ lastTick.new = "down") =>
        lastTick.notify = 1

\* C6: a tick whose resulting state is not "down", or whose monitor was
\* "down" already, invokes Alerter.Notify not at all.
NoNotifyOffDownEdge ==
    (lastTick.mid # 0 /\ (lastTick.new # "down" \/ lastTick.prev = "down")) =>
        lastTick.notify = 0

\* C6 witness: a monitor that was down failed once more.
NoNotifyOffDownEdgeWitness ==
    /\ lastTick.prev = "down" /\ lastTick.new = "down" /\ ~lastTick.isUp
    /\ lastTick.wrote /\ lastTick.notify = 0

\* C7: once Stop has returned no polling loop goes on running, whichever
\* call started it, and no row is inserted into checks.  (A loop whose
\* context is cancelled and that is on its way out is not held against the
\* claim here: what refutes this refutes the claim.)
StopLeavesNoLoop ==
    stop.pc = "returned" =>
        /\ \A l \in LoopIds : ~Live(l)
        /\ ~lateCheck.stop

\* C8: no row of checks comes from a probe that the loop of a monitor began
\* after the Remove that cancelled this loop had returned.
NoProbeAfterRemove == ~lateCheck.remove

\* C9: between the calls of a caller that makes them one after the other,
\* every running loop that has not been cancelled is the one registered
\* for its monitor id, so there is at most one per id and an Add for a
\* registered id leaves no loop behind that the registry cannot cancel.
EveryLoopRegistered ==
    CallsIdle => \A l \in LoopIds : Live(l) => cancel[loops[l].mid] = l

\* C10: once concurrent Restart and Remove calls for an id have all
\* returned, at most one loop of the id is running uncancelled, the
\* registry holds it, and every other loop of the id has been cancelled.
RestartIsAtomic ==
    CallsIdle =>
        \A id \in IDs :
            /\ Cardinality({l \in LoopIds : loops[l].mid = id /\ Live(l)}) <= 1
            /\ \A l \in LoopIds :
                  (loops[l].mid = id /\ Running(l) /\ cancel[id] # l)
                      => loops[l].cancelled

\* C11: while the checker runs and no request to /api/monitors is in
\* progress, every stored monitor has exactly one running loop that has not
\* been cancelled, and an id that is not stored has none.
OneLoopPerStoredMonitor ==
    (phase = "running" /\ handler.pc = "idle" /\ CallsIdle) =>
        \A id \in DOMAIN cancel :
            Cardinality({l \in LoopIds : loops[l].mid = id /\ Live(l)})
                = IF id \in IDs THEN 1 ELSE 0

\* C12: a monitor never has two probe-record-update cycles in flight.  In
\* particular a loop that has been cancelled is never in the record-update
\* part of its cycle (between RecordCheck and UpdateState) while the loop
\* registered for its monitor has a cycle in flight.
OneCycleInFlight ==
    \A l1, l2 \in LoopIds :
        (/\ l1 # l2
         /\ loops[l1].mid = loops[l2].mid
         /\ loops[l1].cancelled
         /\ loops[l1].pc \in {"get", "write"}
         /\ cancel[loops[l2].mid] = l2)
            => ~InCycle(l2)

\* C13: a Notify call that has finished has made no delivery attempt when
\* no webhook URL is configured, and otherwise one attempt when the first
\* was delivered (a 2xx answer) and two when the first failed (a transport
\* error or another status), never more.
AtMostTwoAttempts ==
    alert.pc = "done" =>
        LET delivered == ~alert.first.err /\ alert.first.code \in 200..299
        IN  /\ alert.posts <= 2
            /\ alert.url = "" => alert.posts = 0
            /\ (alert.url # "" /\ delivered) => alert.posts = 1
            /\ (alert.url # "" /\ ~delivered) => alert.posts = 2

\* C14: a Notify call whose first attempt was answered with HTTP 500 makes
\* a second attempt.
RetriesOnServerError ==
    (alert.pc = "done" /\ ~alert.first.err /\ alert.first.code = 500) =>
        alert.posts = 2

\* C15: a loop leaves client.Do either with its Check inserted, and goes
\* on to updateState, or with RecordCheck failed, and then it is back at its
\* ticker select in the same step with no row of monitors changed; a loop
\* is inside updateState only with its Check inserted.
AbandonsTickOnRecordFailure ==
    [][\A l \in LoopIds :
          /\ loops'[l].pc \in {"get", "write"} => loops'[l].rec
          /\ (loops[l].pc = "http" /\ loops'[l].pc # "http") =>
                IF loops'[l].rec
                THEN loops'[l].pc = "get"
                ELSE loops'[l].pc = "wait" /\ monitors' = monitors]_vars

\* C15 witness: a loop is waiting for its next tick after a probe whose
\* RecordCheck failed: no row of checks exists, no updateState has been
\* reached, and the monitor's row is as it was created.
AbandonsTickOnRecordFailureWitness ==
    \E l \in LoopIds :
        /\ loops[l].pc = "wait" /\ loops[l].ticking /\ ~loops[l].cancelled
        /\ lastCheck = NoCheck /\ lastTick = NoTick
        /\ monitors[loops[l].mid] = NewRow

\* C16: a loop that is inside a tick gets out of it, back to its ticker
\* select, whatever failed in the tick, and a loop that waits at its ticker
\* select issues another probe, unless it is cancelled.
AlwaysNextTick ==
    \A l \in 1..MaxMonitors :
        /\ (l \in LoopIds /\ InCycle(l))
               ~> (l \in LoopIds /\ (loops[l].pc = "wait" \/ loops[l].cancelled))
        /\ (l \in LoopIds /\ loops[l].pc = "wait" /\ ~loops[l].cancelled)
               ~> (l \in LoopIds /\ (loops[l].pc = "http" \/ loops[l].cancelled))

\* C16 witness: a loop whose last UpdateState failed has issued its next
\* probe.
AlwaysNextTickWitness ==
    \E l \in LoopIds :
        /\ lastTick.mid = loops[l].mid /\ ~lastTick.wrote
        /\ loops[l].pc = "http" /\ loops[l].ticking /\ ~loops[l].cancelled

NoPartialStart ==
    /\ phase = "failed" =>
          /\ loops = <<>>
          /\ sweeper = "none"
          /\ wg = 0
          /\ \A i \in DOMAIN cancel : cancel[i] = 0
    /\ phase = "running" =>
          /\ sweeper # "none"
          /\ \A i \in 1..MaxMonitors : \E l \in LoopIds : loops[l].mid = i

\* C18 witness: Start has returned the error of a failed listing.
NoPartialStartWitness ==
    phase = "failed" /\ loops = <<>> /\ sweeper = "none"

\* C19: the newest row of checks has is_up set if and only if its probe
\* got a response, with a status code from 200 up to but not including 400;
\* a transport error, a timeout or a cancelled request gives is_up unset.
IsUpIffStatusInRange ==
    lastCheck.mid # 0 =>
        (lastCheck.isUp <=>
            (~lastCheck.resp.err /\ 200 <= lastCheck.resp.code
                                 /\ lastCheck.resp.code < 400))

\* C19 witness: rows of checks at both ends of the range: a probe answered
\* with 399 was recorded up, or one answered with 400 was recorded not up.
IsUpIffStatusInRangeWitness ==
    \/ lastCheck.resp.code = 399 /\ lastCheck.isUp /\ lastCheck.mid # 0
    \/ lastCheck.resp.code = 400 /\ ~lastCheck.isUp /\ lastCheck.mid # 0

\* C20: a row of checks with is_up unset has a NULL status_code.
DownCheckHasNoStatus ==
    (lastCheck.mid # 0 /\ ~lastCheck.isUp) => lastCheck.status = 0

\* C20, amended: a row of checks has a NULL status_code exactly when its
\* probe got no response (transport error, timeout, cancelled request); a
\* probe that got a response keeps the response's status code, whether the
\* code is inside or outside the range of is_up.
StatusNullIffNoResponse ==
    lastCheck.mid # 0 =>
        /\ lastCheck.status = 0 <=> lastCheck.resp.err
        /\ ~lastCheck.resp.err => lastCheck.status = lastCheck.resp.code

\* C20 witness: a check of a probe that failed in transport, not up and
\* with no status code, or a check of a probe answered with 500, not up
\* and with status code 500.
StatusNullIffNoResponseWitness ==
    /\ lastCheck.mid # 0 /\ ~lastCheck.isUp
    /\ \/ lastCheck.resp.err /\ lastCheck.status = 0
       \/ lastCheck.resp.code = 500 /\ lastCheck.status = 500

\* C21: every probe tick sends its request, and a request that has come
\* back, with a response or with an error, is recorded as one Check of the
\* loop's monitor, not up when the request failed, unless the insert
\* itself fails; a failed probe whose state update is written counts one
\* failure more than the row held.
EveryTickRecordsCheck ==
    [][\A l \in LoopIds :
          /\ (/\ loops[l].pc \in {"stagger", "wait"}
              /\ loops'[l].pc # "exited"
              /\ \/ loops'[l].pc # loops[l].pc
                 \/ loops'[l].ticking # loops[l].ticking)
                => loops'[l].pc = "http"
          /\ (loops[l].pc = "http" /\ loops'[l].rec) =>
                /\ lastCheck'.mid = loops[l].mid
                /\ lastCheck'.resp.err => ~lastCheck'.isUp
          /\ (loops[l].pc = "write" /\ loops'[l].pc = "wait" /\ lastTick'.wrote
                 /\ ~loops[l].isUp)
                => lastTick'.newF = lastTick'.prevF + 1]_vars

\* C22: a loop that is cancelled while it waits in its start-up stagger
\* goes nowhere from there but out, with no row of monitors changed and no
\* row of checks inserted by its step, and it does go out.
CancelledStaggerNeverProbes ==
    /\ [][\A l \in LoopIds :
             (loops[l].pc = "stagger" /\ loops[l].cancelled) =>
                /\ loops'[l].pc \in {"stagger", "exited"}
                /\ loops'[l].pc = "exited" =>
                      monitors' = monitors /\ lastCheck' = lastCheck]_vars
    /\ \A l \in 1..(MaxMonitors + MaxLoops) :
          (l \in LoopIds /\ loops[l].pc = "stagger" /\ loops[l].cancelled)
             ~> (l \in LoopIds /\ loops[l].pc = "exited")

\* C22 witness: a loop that Start created waits in its stagger, cancelled
\* by Remove, Restart or Stop (the context of Start is not cancelled).
CancelledStaggerNeverProbesWitness ==
    \E l \in LoopIds :
        /\ loops[l].pc = "stagger" /\ loops[l].cancelled
        /\ loops[l].ctx = "root" /\ ~rootCancelled

\* The length of the run of failing probes that ends a sequence of verdicts.
RECURSIVE TrailingFailures(_)
TrailingFailures(seq) ==
    IF seq = <<>> \/ seq[Len(seq)] THEN 0
    ELSE 1 + TrailingFailures(SubSeq(seq, 1, Len(seq) - 1))

\* C23: a fresh monitor probed by one loop with no storage error holds,
\* after any sequence of verdicts, a failure count equal to the length of
\* the trailing run of failing probes, and is "down" if that run is 3 or
\* longer, else "up" if any probe has succeeded, else "unknown".
RowFollowsTrailingRun ==
    \A id \in IDs :
        outcomes[id].clean =>
            LET seq == outcomes[id].seq
                run == TrailingFailures(seq)
            IN  /\ monitors[id].failures = run
                /\ monitors[id].state =
                      IF run >= 3 THEN "down"
                      ELSE IF \E i \in 1..Len(seq) : seq[i] THEN "up"
                      ELSE "unknown"

\* C23 witness: scenario A has run to its end (up, up, fail, fail, fail
\* gives down with 3 failures), or scenario B has (fail, fail, up, fail,
\* fail gives up with 2 failures).
RowFollowsTrailingRunWitness ==
    /\ outcomes[1].clean
    /\ \/ /\ outcomes[1].seq = <<TRUE, TRUE, FALSE, FALSE, FALSE>>
          /\ monitors[1] = [state |-> "down", failures |-> 3]
       \/ /\ outcomes[1].seq = <<FALSE, FALSE, TRUE, FALSE, FALSE>>
          /\ monitors[1] = [state |-> "up", failures |-> 2]

\* C24: a prune that has failed takes the prune goroutine back to its
\* select and nowhere else, by a step that leaves the polling loops, the
\* WaitGroup and the tables alone; a prune is begun only from the select, by
\* a tick; and the goroutine returns only from its select with the context
\* of Start cancelled.
FailedPruneIsNotFatal ==
    [][/\ sweeper = "logging" =>
             /\ sweeper' \in {"logging", "running"}
             /\ sweeper' = "running" =>
                   loops' = loops /\ wg' = wg /\ monitors' = monitors
       /\ sweeper = "pruning" =>
             /\ sweeper' \in {"pruning", "running", "logging"}
             /\ sweeper' # "pruning" =>
                   loops' = loops /\ wg' = wg /\ monitors' = monitors
       /\ (sweeper' = "pruning" /\ sweeper # "pruning") => sweeper = "running"
       /\ (sweeper' = "exited" /\ sweeper # "exited") =>
             sweeper = "running" /\ rootCancelled]_vars

\* C24 witness: a prune has failed while a polling loop that has not been
\* cancelled is in the middle of a probe.
FailedPruneIsNotFatalWitness ==
    /\ sweeper = "logging"
    /\ \E l \in LoopIds : loops[l].pc = "http" /\ ~loops[l].cancelled

\* C25: the Monitor last handed to Add or Restart by a handler has
\* interval_seconds > 0 and timeout_seconds > 0, and the tick interval that
\* startWorker makes of it for its ticker is positive.
HandedTimingPositive ==
    config.handed.op # "none" =>
        /\ Positive64(config.handed.interval)
        /\ Positive64(config.handed.timeout)
        /\ Positive64(config.handed.tick)

\* C26: a call of Stop returns.
StopReturns == (stop.pc # "idle") ~> (stop.pc = "returned")

\* C27: no row of checks with is_up unset comes from a request that the
\* cancellation of its loop aborted, or that a cancelled loop made: the
\* target of such a check has failed.
NoFailureFromCancel ==
    (lastCheck.mid # 0 /\ ~lastCheck.isUp) => ~lastCheck.aborted

\* C28: once the request that created or updated a monitor is over, the
\* loop that Add or Restart started for it, the one the registry holds, has
\* not been cancelled: it goes on to probe.
LoopOutlivesRequest ==
    (handler.pc = "idle" /\ CallsIdle) =>
        \A id \in DOMAIN cancel :
            cancel[id] # 0 => ~loops[cancel[id]].cancelled

\* C29: a row of monitors with state "down" holds 3 or more consecutive
\* failures, and no tick that read state "down" takes the branch of
\* updateState that holds the state (a failing probe with fewer than 3
\* failures counted), however the loops of a monitor interleave.
DownImpliesThreshold ==
    /\ \A id \in IDs : monitors[id].state = "down" => monitors[id].failures >= 3
    /\ \A l \in LoopIds :
          (loops[l].pc = "write" /\ loops[l].rd.state = "down" /\ ~loops[l].isUp)
             => loops[l].rd.failures + 1 >= failureThreshold

\* C29 witness: a loop is about to write the failure of a monitor that it
\* read as "down", while another loop of the same monitor is running and
\* the row is "down".
DownImpliesThresholdWitness ==
    \E l1, l2 \in LoopIds :
        /\ l1 # l2 /\ loops[l1].mid = loops[l2].mid /\ loops[l1].mid \in IDs
        /\ loops[l1].pc = "write" /\ loops[l1].rd.state = "down" /\ ~loops[l1].isUp
        /\ Running(l2)
        /\ monitors[loops[l1].mid].state = "down"

\* C30: no step of handleMonitorUpdate or of the Restart it calls changes
\* a row of monitors; and a tick of any loop, one that Restart started
\* included, decides from the row as it is stored when the tick reads it,
\* a failing probe adding one to the count it read.
UpdateKeepsHysteresis ==
    [][/\ (handler.op = "Update" /\ (handler' # handler \/ calls' # calls))
             => monitors' = monitors
       /\ \A l \in LoopIds :
             /\ (loops[l].pc = "get" /\ loops'[l].pc = "write")
                   => loops'[l].rd = monitors[loops[l].mid]
             /\ (loops[l].pc = "write" /\ loops'[l].pc = "wait" /\ ~loops[l].isUp
                    /\ monitors' # monitors)
                   => monitors'[loops[l].mid].failures = loops[l].rd.failures + 1]_vars

\* C30 witness: a loop that Restart started has read, for a failing probe,
\* the failures that the row held from before the update, and is about to
\* write one more.
UpdateKeepsHysteresisWitness ==
    \E l \in LoopIds :
        /\ loops[l].ctx = "req" /\ loops[l].pc = "write" /\ ~loops[l].isUp
        /\ loops[l].mid \in IDs
        /\ loops[l].rd.failures >= 1 /\ loops[l].rd = monitors[loops[l].mid]
        /\ \A k \in LoopIds : k # l => loops[k].pc = "exited"

====
